---- MODULE Spec2Model ----
(***************************************************************************)
(* Model of the conversation orchestrator (ChatService), the gateway       *)
(* facade (MCPClient), the tool-exposure resolver and the response         *)
(* envelopes of aws_cli_mcp.                                               *)
(*                                                                         *)
(* Python strings are sequences of one-character strings, so that          *)
(* str.strip() and truthiness are computed and not assumed.  Optional      *)
(* values are records with a `none` flag.                                  *)
(***************************************************************************)
EXTENDS Integers, Sequences, FiniteSets, TLC

VARIABLES history, registry, defaults, snapshot, inflight, peer, last

vars == <<history, registry, defaults, snapshot, inflight, peer, last>>

(***************************************************************************)
(* Bounds of the model.                                                    *)
(***************************************************************************)
MaxHist == 3
MaxTools == 1
MaxCatalog == 2
MaxNames == 2
MaxKept == 2
MaxItems == 2
MaxCalls == 2
\* buckets in a provider listing
MaxBuckets == 3

(***************************************************************************)
(* Strings.                                                                *)
(***************************************************************************)
EmptyStr == <<>>

IsSpace(c) == c \in {" ", "\t", "\n"}

RECURSIVE LStrip(_)
LStrip(s) ==
    IF s = <<>> THEN <<>>
    ELSE IF IsSpace(Head(s)) THEN LStrip(Tail(s))
    ELSE s

RECURSIVE RStrip(_)
RStrip(s) ==
    IF s = <<>> THEN <<>>
    ELSE IF IsSpace(s[Len(s)]) THEN RStrip(SubSeq(s, 1, Len(s) - 1))
    ELSE s

\* str.strip()
Strip(s) == RStrip(LStrip(s))

\* Python truthiness of a str
StrTruthy(s) == s # EmptyStr

SeqsUpTo(S, n) == UNION {[1..k -> S] : k \in 0..n}

(***************************************************************************)
(* Tool specs, catalogs and allow-lists.                                   *)
(***************************************************************************)
ToolSpec(label, allowed) == [server_label |-> label, allowed_tools |-> allowed]

SpecS3 == ToolSpec(<<"s", "3">>, << <<"l", "s">> >>)
SpecGit == ToolSpec(<<"g">>, << <<"f">>, <<"l", "s">> >>)
SpecPadded == ToolSpec(<<" ", "p">>, << <<"f", " ">> >>)
SpecBare == ToolSpec(<<"b">>, <<>>)

SpecPool == {SpecS3, SpecGit, SpecPadded, SpecBare}

NameStrings ==
    {EmptyStr, <<" ">>, <<" ", "\t">>, <<"s", "3">>, <<" ", "g", " ">>,
     <<"l", "s">>, <<"f">>, <<"p">>, <<"z">>}

\* Optional[List[...]]: None, or a list
NoTools == [none |-> TRUE, specs |-> <<>>]
SomeTools(l) == [none |-> FALSE, specs |-> l]

\* Optional[Iterable[str]]: None, or a list of names
NoNames == [none |-> TRUE, items |-> <<>>]
SomeNames(l) == [none |-> FALSE, items |-> l]

Selections == {"all", "none", "some"}

\* `x or None` for a list x
ListOrNone(l) == IF l = <<>> THEN NoTools ELSE SomeTools(l)

\* `not names`
NamesFalsy(names) == names.none \/ names.items = <<>>

\* {n.strip() for n in names if n and n.strip()}
Wanted(names) ==
    {Strip(names.items[i]) : i \in {j \in 1..Len(names.items) :
        StrTruthy(names.items[j]) /\ StrTruthy(Strip(names.items[j]))}}

\* {str(t).strip() for t in spec.get("allowed_tools", [])}
Allowed(spec) == {Strip(spec.allowed_tools[i]) : i \in 1..Len(spec.allowed_tools)}

SpecSelectedByLabel(spec, wanted) == Strip(spec.server_label) \in wanted

\* label in wanted or (allowed & wanted)
SpecSelected(spec, wanted) ==
    \/ Strip(spec.server_label) \in wanted
    \/ (Allowed(spec) \cap wanted) # {}

RECURSIVE FilterSpecs(_, _)
FilterSpecs(all_tools, wanted) ==
    IF all_tools = <<>> THEN <<>>
    ELSE (IF SpecSelected(Head(all_tools), wanted) THEN <<Head(all_tools)>> ELSE <<>>)
         \o FilterSpecs(Tail(all_tools), wanted)

\* MCPClient.tools: a copy of the registered specs
ClientToolsProperty(tools_) == tools_

ResolveNoneExposesAll(selection, names, all_tools) ==
    IF selection = "all" \/ selection = "none" \/ NamesFalsy(names)
    THEN ListOrNone(all_tools)
    ELSE IF Wanted(names) = {} THEN NoTools
    ELSE ListOrNone(FilterSpecs(all_tools, Wanted(names)))

ResolveAllKeepsEmpty(selection, names, all_tools) ==
    IF selection = "none" THEN NoTools
    ELSE IF selection = "all" \/ NamesFalsy(names) THEN SomeTools(all_tools)
    ELSE IF Wanted(names) = {} THEN NoTools
    ELSE ListOrNone(FilterSpecs(all_tools, Wanted(names)))

ResolveBlankNamesFallBack(selection, names, all_tools) ==
    IF selection = "none" THEN NoTools
    ELSE IF selection = "all" \/ NamesFalsy(names) \/ Wanted(names) = {}
    THEN ListOrNone(all_tools)
    ELSE ListOrNone(FilterSpecs(all_tools, Wanted(names)))

\* ChatService._resolve_tools
ResolveTools(selection, names, all_tools) ==
    IF selection = "none" THEN NoTools
    ELSE IF selection = "all" \/ NamesFalsy(names) THEN ListOrNone(all_tools)
    ELSE IF Wanted(names) = {} THEN NoTools
    ELSE ListOrNone(FilterSpecs(all_tools, Wanted(names)))

(***************************************************************************)
(* Gateway facade: MCPClient tool precedence.                              *)
(***************************************************************************)
ClientToolsIgnoreExplicit(tools, kw_tools, tools_) ==
    IF ~kw_tools.none THEN kw_tools
    ELSE IF tools_ # <<>> THEN SomeTools(tools_)
    ELSE NoTools

\* MCPClient.create_response / parse_response: the tools forwarded to the backend
ClientResolvedTools(tools, kw_tools, tools_) ==
    IF ~tools.none THEN tools
    ELSE IF ~kw_tools.none THEN kw_tools
    ELSE IF tools_ # <<>> THEN SomeTools(tools_)
    ELSE NoTools

\* kwargs.pop("tools", None): `tools` is a keyword-only parameter of the
\* facade, so a caller's tools keyword is bound to it and never lands in kwargs
KwTools(kwargs) == NoTools

(***************************************************************************)
(* Values carried by payloads and returned by parse.                       *)
(*   kind "none"     None                                                  *)
(*   kind "dict"     a plain mapping; data names its content               *)
(*   kind "model"    a pydantic BaseModel instance of class cls            *)
(*   kind "str"      a str, its characters in s                            *)
(*   kind "list"     a non-empty list                                      *)
(*   kind "envelope" a validated envelope object of class cls              *)
(*   kind "exc"      an exception of class cls                             *)
(***************************************************************************)
Val(kind, cls, data, s) == [kind |-> kind, cls |-> cls, data |-> data, s |-> s]

PyNone == Val("none", "-", "-", <<>>)
DictVal(data) == Val("dict", "-", data, <<>>)
ModelVal(cls, data) == Val("model", cls, data, <<>>)
StrVal(s) == Val("str", "-", "-", s)
ListVal == Val("list", "-", "items", <<>>)
EnvelopeVal(cls) == Val("envelope", cls, "-", <<>>)
ExcVal(cls) == Val("exc", cls, "-", <<>>)

\* Python truthiness
Truthy(v) ==
    CASE v.kind = "none" -> FALSE
      [] v.kind = "dict" -> v.data # "empty"
      [] v.kind = "str" -> StrTruthy(v.s)
      [] OTHER -> TRUE

\* a or b
PyOr(a, b) == IF Truthy(a) THEN a ELSE b

\* isinstance(v, BaseModel)
IsBaseModel(v) == v.kind \in {"model", "envelope"}

\* isinstance(v, dict)
IsDict(v) == v.kind = "dict"

\* text_format.model_validate(d) for a mapping d: the instance, or ValidationError
TextFormatValidates(text_format, d) == d.data \in {"foo7", "foo1"}

\* the value a field holds after model_dump(mode="json")
JsonDump(v) == IF v.kind = "model" THEN DictVal(v.data) ELSE v

(***************************************************************************)
(* Payloads: the mapping a provider result is coerced to.                  *)
(*   shape "azure"   carries every required field of the Azure envelope    *)
(*   shape "custom"  {"value": <str>}                                      *)
(*   shape "raw"     {"raw": <str>}                                        *)
(* An output item is [type, role, content]; content is a list of           *)
(* fragments, each [isstr, text] (text None when isstr is FALSE).          *)
(***************************************************************************)
Fragment(t) == [isstr |-> TRUE, text |-> t]
NoTextFragment == [isstr |-> FALSE, text |-> <<>>]
OutputItem(type, role, content) == [type |-> type, role |-> role, content |-> content]

Payload(shape, value, output, output_parsed, parsed) ==
    [shape |-> shape, value |-> value, output |-> output,
     output_parsed |-> output_parsed, parsed |-> parsed]

RawPayload == Payload("raw", <<>>, <<>>, PyNone, PyNone)

\* str(self) of a validated envelope: a non-empty rendering of its fields
ReprText == <<"r", "e", "p", "r">>

BlankLine == <<"\n", "\n">>

RECURSIVE JoinTexts(_)
JoinTexts(texts) ==
    IF texts = <<>> THEN <<>>
    ELSE IF Len(texts) = 1 THEN texts[1]
    ELSE texts[1] \o BlankLine \o JoinTexts(Tail(texts))

RECURSIVE FragmentTexts(_)
FragmentTexts(content) ==
    IF content = <<>> THEN <<>>
    ELSE (IF Head(content).isstr /\ StrTruthy(Strip(Head(content).text))
          THEN <<Head(content).text>> ELSE <<>>)
         \o FragmentTexts(Tail(content))

RECURSIVE PrimaryTextsAnyItem(_)
PrimaryTextsAnyItem(output) ==
    IF output = <<>> THEN <<>>
    ELSE FragmentTexts(Head(output).content) \o PrimaryTextsAnyItem(Tail(output))

RECURSIVE PrimaryTexts(_)
PrimaryTexts(output) ==
    IF output = <<>> THEN <<>>
    ELSE (IF Head(output).type # "message" \/ Head(output).role # "assistant"
          THEN <<>>
          ELSE FragmentTexts(Head(output).content))
         \o PrimaryTexts(Tail(output))

RECURSIVE FallbackFirstItemOnly(_)
FallbackFirstItemOnly(output) ==
    IF output = <<>> THEN [none |-> TRUE, text |-> <<>>]
    ELSE IF Head(output).content # <<>>
         THEN (IF Head(output).content[1].isstr
               THEN [none |-> FALSE, text |-> Head(output).content[1].text]
               ELSE [none |-> TRUE, text |-> <<>>])
    ELSE FallbackFirstItemOnly(Tail(output))

\* the fallback loop of AzureOpenAIResponse._extract_text; none when it finds nothing
RECURSIVE FallbackText(_)
FallbackText(output) ==
    IF output = <<>> THEN [none |-> TRUE, text |-> <<>>]
    ELSE IF Head(output).content # <<>> /\ Head(output).content[1].isstr
         THEN [none |-> FALSE, text |-> Head(output).content[1].text]
    ELSE FallbackText(Tail(output))

\* AzureOpenAIResponse._extract_text
AzureExtract(p) ==
    IF p.output = <<>> THEN [none |-> TRUE, text |-> <<>>]
    ELSE IF PrimaryTexts(p.output) # <<>>
         THEN [none |-> FALSE, text |-> JoinTexts(PrimaryTexts(p.output))]
    ELSE FallbackText(p.output)

AzureParsedIgnoresField(p) == AzureExtract(p)

\* AzureOpenAIParsedResponse._extract_text
AzureParsedExtract(p) ==
    IF p.output_parsed.kind = "str" /\ StrTruthy(p.output_parsed.s)
    THEN [none |-> FALSE, text |-> p.output_parsed.s]
    ELSE AzureExtract(p)

PublicExtractRaw(t) == t.text

PublicExtractNoneOnly(t) == IF t.none THEN ReprText ELSE t.text

\* BaseLLMResponse.extract_text / BaseLLMParsedResponse.extract_text
PublicExtract(t) == IF ~t.none /\ StrTruthy(t.text) THEN t.text ELSE ReprText

ResponseModels == {"AzureOpenAIResponse", "FakeResponseModel"}
ParsedResponseModels == {"AzureOpenAIParsedResponse", "FakeParsedResponseModel"}

\* response_model.model_validate(payload) succeeds
ModelValidates(model, p) ==
    CASE model \in {"AzureOpenAIResponse", "AzureOpenAIParsedResponse"} -> p.shape = "azure"
      [] model = "FakeResponseModel" -> p.shape = "custom"
      [] model = "FakeParsedResponseModel" ->
            /\ p.output_parsed.kind \in {"none", "dict"}
            /\ p.parsed.kind \in {"none", "dict"}

\* resp_obj.extract_text()
ExtractText(model, p) ==
    CASE model = "AzureOpenAIResponse" -> PublicExtract(AzureExtract(p))
      [] model = "AzureOpenAIParsedResponse" -> PublicExtract(AzureParsedExtract(p))
      [] model = "FakeResponseModel" -> p.value

(***************************************************************************)
(* Coercion of a provider result.  A raw result is [form, payload]:        *)
(*   "dict"     already a mapping                                          *)
(*   "model"    a pydantic model, dumped in JSON mode                      *)
(*   "json"     a str holding a JSON object                                *)
(*   "text"     a str that is not JSON                                     *)
(*   "object"   an object without dump methods whose str() is not JSON     *)
(***************************************************************************)
Raw(form, payload) == [form |-> form, payload |-> payload]

JsonDumpPayload(p) ==
    [p EXCEPT !.output_parsed = JsonDump(@), !.parsed = JsonDump(@)]

\* to_dict: the mapping, or the error it raises
ToDict(raw) ==
    CASE raw.form = "dict" -> [ok |-> TRUE, err |-> "-", payload |-> raw.payload]
      [] raw.form = "model" -> [ok |-> TRUE, err |-> "-", payload |-> JsonDumpPayload(raw.payload)]
      [] raw.form = "json" -> [ok |-> TRUE, err |-> "-", payload |-> JsonDumpPayload(raw.payload)]
      [] raw.form = "text" -> [ok |-> FALSE, err |-> "JSONDecodeError", payload |-> RawPayload]
      [] raw.form = "object" -> [ok |-> TRUE, err |-> "-", payload |-> RawPayload]

(***************************************************************************)
(* Conversation orchestrator: ChatService.                                 *)
(***************************************************************************)
Roles == {"system", "user", "assistant", "tool"}

Turn(role, content) == [role |-> role, content |-> content]

Hi == <<"h", "i">>
Ok == <<"o", "k">>
Sys == <<"s", "y", "s">>
Note == <<"n">>

Prompts == {Hi}
GatewayErrors == {"TimeoutError", "AuthError"}
TextFormats == {"StructOut"}

\* outcome of a call: what it returns, or the exception it raises
Returns(v) == [tag |-> "return", val |-> v]
Raises(cls) == [tag |-> "raise", val |-> ExcVal(cls)]

\* reply of the provider backend: a raw result, or a failure
ReplyRaw(raw) == [raised |-> FALSE, err |-> "-", raw |-> raw]
ReplyError(e) == [raised |-> TRUE, err |-> e, raw |-> Raw("dict", RawPayload)]

NoText == [none |-> TRUE, text |-> <<>>]
NoRequest ==
    [op |-> "-", input |-> <<>>, model |-> PyNone, instructions |-> PyNone,
     tools |-> NoTools]

DefaultModel == StrVal(<<"d", "m">>)
DefaultInstructions == StrVal(<<"d", "s">>)
GivenModel == StrVal(<<"m">>)
GivenInstructions == StrVal(<<"i">>)

\* MCPClient.default_model / default_instructions
Defaults(model, instructions) == [model |-> model, instructions |-> instructions]

\* MCPClient.create_response / parse_response: what the backend is called with
ClientRequest(op, input, model, instructions, tools, kwargs, tools_, dflt) ==
    [op |-> op, input |-> input,
     model |-> PyOr(model, dflt.model),
     instructions |-> PyOr(instructions, dflt.instructions),
     tools |-> ClientResolvedTools(tools, KwTools(kwargs), tools_)]

\* keywords the orchestrator passes to the facade itself, next to **kwargs
CreateKeywords == {"input", "model", "instructions", "tools"}
ParseKeywords == {"text_format", "input", "model", "instructions", "messages", "tools"}

\* f(k=..., **kwargs) with k in kwargs: TypeError before f is entered
KeywordClash(kwargs, passed) == (kwargs \cap passed) # {}

GatewayCallsRetry(clash, reply) == IF clash THEN 0 ELSE IF reply.raised THEN 2 ELSE 1

\* how often one send or parse reaches the gateway: one call statement, no loop
GatewayCalls(clash, reply) == IF clash THEN 0 ELSE 1

\* a turn of a returned history: alias is the position of the internal turn it
\* is the same object as, 0 when the internal list no longer holds that object
SharedTurn(i, t) == [alias |-> i, turn |-> t]
OwnTurn(t) == [alias |-> 0, turn |-> t]

\* a list a caller holds: samelist tells whether it is the internal list object
NoSnapshot == [samelist |-> FALSE, turns |-> <<>>]

HistoryInternalList(h) ==
    [samelist |-> TRUE, turns |-> [i \in 1..Len(h) |-> SharedTurn(i, h[i])]]

\* ChatService.history: list(self._history), a new list of the same turn objects
HistoryProperty(h) ==
    [samelist |-> FALSE, turns |-> [i \in 1..Len(h) |-> SharedTurn(i, h[i])]]

\* what an operation outside the orchestrator took and gave: none
NoIo == [kind |-> "-"]

\* the send calls in progress on the orchestrator: none
NoCalls == <<>>

\* a second orchestrator and the turn list both were constructed from: seed
\* is that list, shared tells whether this orchestrator's history is the list
\* object itself, peer_shared whether the second one's is, history is the
\* second orchestrator's history and built what it was after construction
Peer(seed, shared, h, peer_shared) ==
    [seed |-> seed, shared |-> shared, history |-> h, peer_shared |-> peer_shared,
     built |-> h]

NoPeer == Peer(<<>>, FALSE, <<>>, FALSE)

\* a change of this orchestrator's history list, seen through every holder of
\* the same list object
Sync(p, h) ==
    IF p.shared
    THEN [p EXCEPT !.seed = h, !.history = IF p.peer_shared THEN h ELSE @]
    ELSE p

\* the ledger of the last operation: its inputs, what it handed to the
\* backend, the backend's failure (gwerr), the step that failed (failed),
\* what it extracted and what it gave back
Ledger(op, pre) ==
    [op |-> op, pre |-> pre, prompt |-> <<>>, selection |-> "-", names |-> NoNames,
     resolved |-> NoTools, called |-> 0, request |-> NoRequest, model |-> "-",
     gwerr |-> "-", failed |-> "-",
     text |-> NoText, primary |-> PyNone, secondary |-> PyNone,
     text_format |-> "-", ret |-> Returns(PyNone),
     kwargs |-> {}, model_arg |-> PyNone, instructions_arg |-> PyNone,
     kw_tools |-> NoTools,
     form |-> "-", payload |-> RawPayload, read |-> <<>>, at |-> 0, io |-> NoIo]

AppendOverwrites(h, role, content) == <<Turn(role, content)>>

\* ChatService.add_turn / set_system
Append_(h, role, content) == Append(h, Turn(role, content))

MessagesPromptOnly(h, prompt) == <<Turn("user", prompt)>>

\* self.history, then messages.append(user turn): the list handed to the gateway
Messages(h, prompt) == Append(h, Turn("user", prompt))

\* send, lines 169-184: the call, then coercion, validation and extraction of
\* the raw result
SendExtract(model, reply, clash) ==
    IF clash
    THEN [out |-> Raises("TypeError"), failed |-> "call", text |-> NoText]
    ELSE IF reply.raised
    THEN [out |-> Raises(reply.err), failed |-> "gateway", text |-> NoText]
    ELSE IF ~ToDict(reply.raw).ok
         THEN [out |-> Raises(ToDict(reply.raw).err), failed |-> "coerce", text |-> NoText]
    ELSE IF ~ModelValidates(model, ToDict(reply.raw).payload)
         THEN [out |-> Raises("ValidationError"), failed |-> "envelope", text |-> NoText]
    ELSE LET t == ExtractText(model, ToDict(reply.raw).payload)
         IN [out |-> Returns(StrVal(t)), failed |-> "-",
             text |-> [none |-> FALSE, text |-> t]]

SendCommitUserFirst(h, prompt, x) ==
    IF x.out.tag = "return" /\ StrTruthy(x.text.text)
    THEN Append_(Append_(h, "user", prompt), "assistant", x.text.text)
    ELSE Append_(h, "user", prompt)

SendCommitAssistantFirst(h, prompt, x) ==
    IF x.out.tag = "return" /\ StrTruthy(x.text.text)
    THEN Append_(Append_(h, "assistant", x.text.text), "user", prompt)
    ELSE h

SendCommitOnFailure(h, prompt, x) ==
    IF x.out.tag = "raise" \/ StrTruthy(x.text.text)
    THEN Append_(Append_(h, "user", prompt), "assistant", x.text.text)
    ELSE h

SendCommitReplaces(h, prompt, x) ==
    IF x.out.tag = "return" /\ StrTruthy(x.text.text)
    THEN <<Turn("user", prompt), Turn("assistant", x.text.text)>>
    ELSE h

SendCommitUserOnRaise(h, prompt, x) ==
    IF x.out.tag = "raise" THEN Append_(h, "user", prompt)
    ELSE IF StrTruthy(x.text.text)
    THEN Append_(Append_(h, "user", prompt), "assistant", x.text.text)
    ELSE h

\* send, lines 186-188: the history after the call
SendCommit(h, prompt, x) ==
    IF x.out.tag = "return" /\ StrTruthy(x.text.text)
    THEN Append_(Append_(h, "user", prompt), "assistant", x.text.text)
    ELSE h

\* parse, lines 235-250: the call, then coercion and validation of the raw result
ParseValidate(model, reply, clash) ==
    IF clash
    THEN [out |-> Raises("TypeError"), failed |-> "call", payload |-> RawPayload]
    ELSE IF reply.raised
    THEN [out |-> Raises(reply.err), failed |-> "gateway", payload |-> RawPayload]
    ELSE IF ~ToDict(reply.raw).ok
         THEN [out |-> Raises(ToDict(reply.raw).err), failed |-> "coerce",
               payload |-> RawPayload]
    ELSE IF ~ModelValidates(model, ToDict(reply.raw).payload)
         THEN [out |-> Raises("ValidationError"), failed |-> "envelope",
               payload |-> RawPayload]
    ELSE [out |-> Returns(EnvelopeVal(model)), failed |-> "-",
          payload |-> ToDict(reply.raw).payload]

ParseCommitBoth(h, prompt, v) ==
    IF v.out.tag = "return"
    THEN Append_(Append_(h, "user", prompt), "assistant", ReprText)
    ELSE h

ParseCommitAlways(h, prompt, v) == Append_(h, "user", prompt)

\* parse, line 251: the history after the call
ParseCommit(h, prompt, v) ==
    IF v.out.tag = "return" THEN Append_(h, "user", prompt) ELSE h

ParseSelectPrimaryOnly(primary, secondary) == primary

\* parse, line 253: output_parsed or parsed
ParseSelect(primary, secondary) == PyOr(primary, secondary)

ParseResultEnvelopeForDict(model, text_format, parsed) ==
    IF IsBaseModel(parsed) THEN Returns(parsed) ELSE Returns(EnvelopeVal(model))

\* parse, lines 254-259: the structured result
ParseResult(model, text_format, parsed) ==
    IF IsBaseModel(parsed) THEN Returns(parsed)
    ELSE IF IsDict(parsed)
         THEN (IF TextFormatValidates(text_format, parsed)
               THEN Returns(ModelVal(text_format, parsed.data))
               ELSE Raises("ValidationError"))
    ELSE Returns(EnvelopeVal(model))

(***************************************************************************)
(* Inputs.                                                                 *)
(***************************************************************************)
AssistantMessage(texts) ==
    OutputItem("message", "assistant", [i \in 1..Len(texts) |-> Fragment(texts[i])])

CustomPayload(value) == Payload("custom", value, <<>>, PyNone, PyNone)
AzurePayload(output, output_parsed, parsed) ==
    Payload("azure", <<>>, output, output_parsed, parsed)

Call(selection, names, model, reply) ==
    [selection |-> selection, names |-> names, model |-> model, reply |-> reply,
     kwargs |-> {}, model_arg |-> PyNone, instructions_arg |-> PyNone]

\* the same call with extra keyword arguments, or naming model and instructions
WithKwargs(c, kwargs) == [c EXCEPT !.kwargs = kwargs]
WithModel(c, model, instructions) ==
    [c EXCEPT !.model_arg = model, !.instructions_arg = instructions]

\* per-call tool policies: (selection, names)
Policies ==
    {<<"all", NoNames>>, <<"none", NoNames>>, <<"some", SomeNames(<< <<"z">> >>)>>}

\* send calls of a conversation: (response_model, backend reply)
SendCases ==
    {<<"FakeResponseModel", ReplyRaw(Raw("dict", CustomPayload(EmptyStr)))>>,
     <<"FakeResponseModel", ReplyRaw(Raw("json", CustomPayload(Ok)))>>,
     <<"AzureOpenAIResponse",
       ReplyRaw(Raw("dict", AzurePayload(<<AssistantMessage(<<Ok>>)>>, PyNone, PyNone)))>>,
     <<"AzureOpenAIResponse", ReplyRaw(Raw("model", AzurePayload(<<>>, PyNone, PyNone)))>>,
     <<"AzureOpenAIResponse", ReplyRaw(Raw("dict", CustomPayload(Ok)))>>,
     <<"AzureOpenAIResponse", ReplyError("TimeoutError")>>,
     <<"FakeResponseModel", ReplyError("AuthError")>>,
     <<"AzureOpenAIResponse", ReplyRaw(Raw("text", RawPayload))>>,
     <<"FakeResponseModel", ReplyRaw(Raw("object", RawPayload))>>}

OkSend == Call("all", NoNames, "FakeResponseModel", ReplyRaw(Raw("dict", CustomPayload(Ok))))

SendCalls ==
    {Call(p[1], p[2], c[1], c[2]) : p \in Policies, c \in SendCases}
    \cup {WithKwargs(OkSend, {"temperature"}), WithKwargs(OkSend, {"tools"}),
          WithModel(OkSend, GivenModel, GivenInstructions)}

\* parse calls of a conversation: (parsed_response_model, backend reply)
ParseCases ==
    {<<"AzureOpenAIParsedResponse",
       ReplyRaw(Raw("dict", AzurePayload(<<>>, DictVal("foo7"), PyNone)))>>,
     <<"AzureOpenAIParsedResponse",
       ReplyRaw(Raw("dict", AzurePayload(<<>>, PyNone, DictVal("foo1"))))>>,
     <<"AzureOpenAIParsedResponse",
       ReplyRaw(Raw("dict", AzurePayload(<<>>, PyNone, PyNone)))>>,
     <<"AzureOpenAIParsedResponse",
       ReplyRaw(Raw("dict", AzurePayload(<<>>, DictVal("bad"), PyNone)))>>,
     <<"AzureOpenAIParsedResponse",
       ReplyRaw(Raw("dict", AzurePayload(<<>>, ModelVal("StructOut", "foo7"), PyNone)))>>,
     <<"FakeParsedResponseModel",
       ReplyRaw(Raw("dict", AzurePayload(<<>>, ModelVal("StructOut", "foo7"), PyNone)))>>,
     <<"FakeParsedResponseModel",
       ReplyRaw(Raw("json", AzurePayload(<<>>, DictVal("foo7"), PyNone)))>>,
     <<"AzureOpenAIParsedResponse", ReplyError("TimeoutError")>>,
     <<"FakeParsedResponseModel", ReplyError("AuthError")>>,
     <<"FakeParsedResponseModel", ReplyRaw(Raw("text", RawPayload))>>}

OkParse ==
    Call("all", NoNames, "AzureOpenAIParsedResponse",
         ReplyRaw(Raw("dict", AzurePayload(<<>>, DictVal("foo7"), PyNone))))

ParseCalls ==
    {Call(p[1], p[2], c[1], c[2]) : p \in Policies, c \in ParseCases}
    \cup {WithKwargs(OkParse, {"top_p"}), WithKwargs(OkParse, {"messages"}),
          WithModel(OkParse, GivenModel, PyNone)}


(***************************************************************************)
(* Operations.                                                             *)
(***************************************************************************)
\* ChatService.__init__ over MCPClient.__init__
Init ==
    /\ registry \in SeqsUpTo({SpecS3}, MaxTools)
    /\ history \in {<<>>, <<Turn("system", Sys)>>}
    /\ defaults = Defaults(DefaultModel, PyNone)
    /\ snapshot = NoSnapshot
    /\ inflight = NoCalls
    /\ peer = NoPeer
    /\ last = Ledger("init", <<>>)

\* self._history.clear(): the turns a caller still holds leave the internal list
Detach(snap) ==
    [snap EXCEPT !.turns = [i \in 1..Len(snap.turns) |-> OwnTurn(snap.turns[i].turn)]]

\* ChatService.reset
Reset ==
    /\ history' = <<>>
    /\ snapshot' = Detach(snapshot)
    /\ last' = Ledger("reset", history)
    /\ peer' = Sync(peer, history')
    /\ UNCHANGED <<registry, defaults, inflight>>

\* ChatService.set_system
SetSystem ==
    /\ Len(history) < MaxHist
    /\ history' = Append_(history, "system", Sys)
    /\ last' = Ledger("set_system", history)
    /\ peer' = Sync(peer, history')
    /\ UNCHANGED <<registry, defaults, snapshot, inflight>>

\* ChatService.add_turn
AddTurn ==
    /\ Len(history) < MaxHist
    /\ \E role \in Roles :
        /\ history' = Append_(history, role, Note)
        /\ last' = [Ledger("add_turn", history) EXCEPT !.prompt = Note]
    /\ peer' = Sync(peer, history')
    /\ UNCHANGED <<registry, defaults, snapshot, inflight>>

\* MCPClient.add_tool
AddTool ==
    /\ Len(registry) < MaxTools
    /\ \E spec \in {SpecS3} : registry' = Append(registry, spec)
    /\ last' = Ledger("add_tool", history)
    /\ UNCHANGED <<history, defaults, snapshot, inflight, peer>>

\* ChatService.send, for one of the given calls
SendCall(calls) ==
    /\ Len(history) + 2 <= MaxHist
    /\ \E prompt \in Prompts, c \in calls :
        LET tools == ResolveTools(c.selection, c.names, ClientToolsProperty(registry))
            clash == KeywordClash(c.kwargs, CreateKeywords)
            x == SendExtract(c.model, c.reply, clash)
        IN /\ history' = SendCommit(history, prompt, x)
           /\ last' = [Ledger("send", history) EXCEPT
                  !.prompt = prompt, !.selection = c.selection, !.names = c.names,
                  !.kwargs = c.kwargs, !.model_arg = c.model_arg,
                  !.instructions_arg = c.instructions_arg,
                  !.resolved = tools, !.called = GatewayCalls(clash, c.reply),
                  !.request =
                      IF clash THEN NoRequest
                      ELSE ClientRequest("create_response", Messages(history, prompt),
                                         c.model_arg, c.instructions_arg, tools,
                                         c.kwargs, registry, defaults),
                  !.gwerr = IF clash THEN "-" ELSE c.reply.err,
                  !.form = IF clash \/ c.reply.raised THEN "-" ELSE c.reply.raw.form,
                  !.failed = x.failed,
                  !.model = c.model, !.text = x.text, !.ret = x.out]
    /\ peer' = Sync(peer, history')
    /\ UNCHANGED <<registry, defaults, snapshot, inflight>>

\* ChatService.parse, for one of the given calls
ParseCall(calls) ==
    /\ Len(history) + 1 <= MaxHist
    /\ \E prompt \in Prompts, text_format \in TextFormats, c \in calls :
        LET tools == ResolveTools(c.selection, c.names, ClientToolsProperty(registry))
            clash == KeywordClash(c.kwargs, ParseKeywords)
            v == ParseValidate(c.model, c.reply, clash)
            parsed == ParseSelect(v.payload.output_parsed, v.payload.parsed)
            result == IF v.out.tag = "raise" THEN v.out
                      ELSE ParseResult(c.model, text_format, parsed)
        IN /\ history' = ParseCommit(history, prompt, v)
           /\ last' = [Ledger("parse", history) EXCEPT
                  !.prompt = prompt, !.selection = c.selection, !.names = c.names,
                  !.kwargs = c.kwargs, !.model_arg = c.model_arg,
                  !.instructions_arg = c.instructions_arg,
                  !.resolved = tools, !.called = GatewayCalls(clash, c.reply),
                  !.request =
                      IF clash THEN NoRequest
                      ELSE ClientRequest("parse_response", Messages(history, prompt),
                                         c.model_arg, c.instructions_arg, tools,
                                         c.kwargs, registry, defaults),
                  !.model = c.model, !.text_format = text_format,
                  !.primary = v.payload.output_parsed, !.secondary = v.payload.parsed,
                  !.gwerr = IF clash THEN "-" ELSE c.reply.err,
                  !.form = IF clash \/ c.reply.raised THEN "-" ELSE c.reply.raw.form,
                  !.failed = IF v.out.tag = "raise" THEN v.failed
                             ELSE IF result.tag = "raise" THEN "text_format"
                             ELSE "-",
                  !.ret = result]
    /\ peer' = Sync(peer, history')
    /\ UNCHANGED <<registry, defaults, snapshot, inflight>>

\* ChatService.history, read by a caller that keeps the returned list or drops it
HistoryReadBy(keeps) ==
    /\ snapshot' = IF keeps THEN HistoryProperty(history) ELSE snapshot
    /\ last' = [Ledger("history", history) EXCEPT !.read = HistoryProperty(history).turns]
    /\ UNCHANGED <<history, registry, defaults, inflight, peer>>

HistoryRead == HistoryReadBy(FALSE)

\* ChatService._resolve_tools, on its own
Resolve ==
    /\ \E p \in Policies :
        last' = [Ledger("resolve", history) EXCEPT
                    !.selection = p[1], !.names = p[2],
                    !.resolved = ResolveTools(p[1], p[2], ClientToolsProperty(registry))]
    /\ UNCHANGED <<history, registry, defaults, snapshot, inflight, peer>>

Send == SendCall(SendCalls)

Parse == ParseCall(ParseCalls)

Next ==
    \/ Reset \/ SetSystem \/ AddTurn \/ AddTool \/ HistoryRead \/ Resolve
    \/ Send \/ Parse

Spec == Init /\ [][Next]_vars

(***************************************************************************)
(* send calls of several threads on one orchestrator, not serialized: a    *)
(* thread can be preempted at the gateway call and between the statements  *)
(* of send.                                                                *)
(***************************************************************************)
Threads == 1..MaxCalls

\* the prompt of thread t and the text the gateway answers it with
RacePrompt(t) == [i \in 1..t |-> "q"]
RaceAnswer(t) == [i \in 1..t |-> "a"]

\* the gateway's replies to thread t: a text, an empty text, a failure
RaceReplies(t) ==
    {ReplyRaw(Raw("dict", CustomPayload(RaceAnswer(t)))),
     ReplyRaw(Raw("dict", CustomPayload(EmptyStr))),
     ReplyError("TimeoutError")}

\* a send call of a thread: where it is, its prompt, the message list it
\* built, what it extracted
IdleCall == [pc |-> "idle", prompt |-> <<>>, input |-> <<>>, text |-> NoText]

InitRace ==
    /\ registry = <<>>
    /\ history \in {<<>>, <<Turn("system", Sys)>>}
    /\ defaults = Defaults(DefaultModel, PyNone)
    /\ snapshot = NoSnapshot
    /\ inflight = [t \in Threads |-> IdleCall]
    /\ peer = NoPeer
    /\ last = Ledger("init", <<>>)

\* send, lines 164-175: the message list is built and the gateway is called
RaceBegin(t) ==
    /\ inflight[t].pc = "idle"
    /\ inflight' = [inflight EXCEPT ![t] =
            [pc |-> "called", prompt |-> RacePrompt(t),
             input |-> Messages(history, RacePrompt(t)), text |-> NoText]]
    /\ UNCHANGED <<history, registry, defaults, snapshot, peer, last>>

\* send, lines 169-186: the gateway call ends, the text is extracted and tested
RaceReturn(t) ==
    /\ inflight[t].pc = "called"
    /\ \E reply \in RaceReplies(t) :
        LET x == SendExtract("FakeResponseModel", reply, FALSE)
        IN inflight' = [inflight EXCEPT
              ![t].text = x.text,
              ![t].pc = IF x.out.tag = "return" /\ StrTruthy(x.text.text)
                        THEN "commit" ELSE "done"]
    /\ UNCHANGED <<history, registry, defaults, snapshot, peer, last>>

\* send, line 187: self.add_turn("user", prompt)
RaceAddUser(t) ==
    /\ inflight[t].pc = "commit"
    /\ history' = Append_(history, "user", inflight[t].prompt)
    /\ inflight' = [inflight EXCEPT ![t].pc = "user"]
    /\ peer' = Sync(peer, history')
    /\ UNCHANGED <<registry, defaults, snapshot, last>>

\* send, line 188: self.add_turn("assistant", text)
RaceAddAssistant(t) ==
    /\ inflight[t].pc = "user"
    /\ history' = Append_(history, "assistant", inflight[t].text.text)
    /\ inflight' = [inflight EXCEPT ![t].pc = "done"]
    /\ peer' = Sync(peer, history')
    /\ UNCHANGED <<registry, defaults, snapshot, last>>

NextRace ==
    \E t \in Threads :
        \/ RaceBegin(t) \/ RaceReturn(t) \/ RaceAddUser(t) \/ RaceAddAssistant(t)

SpecRace == InitRace /\ [][NextRace]_vars

(***************************************************************************)
(* Two orchestrators constructed from one turn list that the caller keeps  *)
(* and changes; the operations run on the first orchestrator.              *)
(***************************************************************************)
ConstructKeepsList(system_instructions, seed) ==
    [samelist |-> TRUE, turns |-> seed]

\* ChatService.__init__: a new list, seeded with the system message if there
\* is one, then a new turn for the role and content of every given turn
Construct(system_instructions, seed) ==
    [samelist |-> FALSE,
     turns |-> (IF Truthy(system_instructions)
                THEN <<Turn("system", system_instructions.s)>> ELSE <<>>)
               \o [i \in 1..Len(seed) |-> Turn(seed[i].role, seed[i].content)]]

\* the history argument of the constructor
SeedLists == SeqsUpTo({Turn("user", Hi)}, MaxKept)

\* the system_instructions argument
SystemArgs == {PyNone, StrVal(EmptyStr), StrVal(Sys)}

InitInstances ==
    /\ registry = <<>>
    /\ defaults = Defaults(DefaultModel, PyNone)
    /\ snapshot = NoSnapshot
    /\ inflight = NoCalls
    /\ last = Ledger("init", <<>>)
    /\ \E seed \in SeedLists, first \in SystemArgs, second \in SystemArgs :
        /\ history = Construct(first, seed).turns
        /\ peer = Peer(seed, Construct(first, seed).samelist,
                       Construct(second, seed).turns, Construct(second, seed).samelist)

\* history_arg.append(turn), by the caller
SeedAppend ==
    /\ Len(peer.seed) <= MaxKept
    /\ LET l == Append(peer.seed, Turn("tool", Note))
       IN /\ peer' = [peer EXCEPT !.seed = l,
                                  !.history = IF peer.peer_shared THEN l ELSE @]
          /\ history' = IF peer.shared THEN l ELSE history
    /\ last' = Ledger("seed_append", history)
    /\ UNCHANGED <<registry, defaults, snapshot, inflight>>

\* history_arg.clear(), by the caller
SeedClear ==
    /\ peer.seed # <<>>
    /\ peer' = [peer EXCEPT !.seed = <<>>,
                            !.history = IF peer.peer_shared THEN <<>> ELSE @]
    /\ history' = IF peer.shared THEN <<>> ELSE history
    /\ last' = Ledger("seed_clear", history)
    /\ UNCHANGED <<registry, defaults, snapshot, inflight>>

SendOk == SendCall({OkSend})

ParseOk == ParseCall({OkParse})

NextInstances ==
    \/ Reset \/ SetSystem \/ AddTurn \/ SendOk \/ ParseOk
    \/ SeedAppend \/ SeedClear

SpecInstances == InitInstances /\ [][NextInstances]_vars

(***************************************************************************)
(* A caller that keeps a returned history and mutates it.                  *)
(***************************************************************************)
InitHistory ==
    /\ registry = <<>>
    /\ history \in {<<>>, <<Turn("system", Sys)>>}
    /\ defaults = Defaults(DefaultModel, PyNone)
    /\ snapshot = NoSnapshot
    /\ inflight = NoCalls
    /\ peer = NoPeer
    /\ last = Ledger("init", <<>>)

HistoryKept == HistoryReadBy(TRUE)

\* ChatService.set_system, while the history is short
SeedShort == Len(history) < MaxKept /\ SetSystem

\* returned.append(turn)
CallerAppend ==
    /\ Len(snapshot.turns) <= MaxKept
    /\ LET t == Turn("user", Note)
       IN /\ snapshot' = [snapshot EXCEPT !.turns = Append(@, OwnTurn(t))]
          /\ history' = IF snapshot.samelist THEN Append(history, t) ELSE history
    /\ last' = Ledger("caller_append", history)
    /\ peer' = Sync(peer, history')
    /\ UNCHANGED <<registry, defaults, inflight>>

\* returned.pop()
CallerRemove ==
    /\ snapshot.turns # <<>>
    /\ snapshot' = [snapshot EXCEPT !.turns = SubSeq(@, 1, Len(@) - 1)]
    /\ history' = IF snapshot.samelist /\ history # <<>>
                  THEN SubSeq(history, 1, Len(history) - 1) ELSE history
    /\ last' = Ledger("caller_remove", history)
    /\ peer' = Sync(peer, history')
    /\ UNCHANGED <<registry, defaults, inflight>>

\* returned[i][field] = value: the turn object changes, wherever it is held
CallerSet(i, t) ==
    /\ t # snapshot.turns[i].turn
    /\ snapshot' = [snapshot EXCEPT !.turns[i].turn = t]
    /\ history' = IF snapshot.turns[i].alias > 0
                  THEN [history EXCEPT ![snapshot.turns[i].alias] = t]
                  ELSE history
    /\ last' = [Ledger("caller_set", history) EXCEPT !.at = i]
    /\ peer' = Sync(peer, history')
    /\ UNCHANGED <<registry, defaults, inflight>>

\* returned[i]["role"] = "tool"
CallerSetRole ==
    \E i \in 1..Len(snapshot.turns) :
        CallerSet(i, [snapshot.turns[i].turn EXCEPT !.role = "tool"])

\* returned[i]["content"] = "ok"
CallerSetContent ==
    \E i \in 1..Len(snapshot.turns) :
        CallerSet(i, [snapshot.turns[i].turn EXCEPT !.content = Ok])

NextHistory ==
    \/ SeedShort \/ Reset \/ HistoryKept
    \/ CallerAppend \/ CallerRemove \/ CallerSetRole \/ CallerSetContent

SpecHistory == InitHistory /\ [][NextHistory]_vars

(***************************************************************************)
(* parse alone, over the values the two structured fields can hold.        *)
(***************************************************************************)
PrimaryVals ==
    {PyNone, DictVal("empty"), DictVal("foo7"), DictVal("bad"),
     ModelVal("StructOut", "foo7"), ModelVal("Other", "foo1"),
     StrVal(Ok), StrVal(EmptyStr), ListVal}

SecondaryVals ==
    {PyNone, DictVal("empty"), DictVal("foo1"), DictVal("bad"),
     ModelVal("Other", "foo1"), StrVal(Ok)}

StructuredReplies ==
    {ReplyRaw(Raw(f, AzurePayload(<<>>, a, b))) :
        f \in {"dict", "model"}, a \in PrimaryVals, b \in SecondaryVals}

InitParse ==
    /\ registry \in SeqsUpTo({SpecS3}, MaxTools)
    /\ history \in SeqsUpTo({Turn("system", Sys), Turn("user", Hi)}, MaxHist - 1)
    /\ defaults = Defaults(DefaultModel, PyNone)
    /\ snapshot = NoSnapshot
    /\ inflight = NoCalls
    /\ peer = NoPeer
    /\ last = Ledger("init", <<>>)

ParseOnce ==
    /\ last.op = "init"
    /\ ParseCall({Call("all", NoNames, m, r) :
                    m \in ParsedResponseModels, r \in StructuredReplies})

NextParse == ParseOnce

SpecParse == InitParse /\ [][NextParse]_vars

(***************************************************************************)
(* extract_text alone, over the output lists an Azure envelope can hold.   *)
(***************************************************************************)
TextX == <<"X">>
TextY == <<"Y">>
TextPadded == <<" ", "Z", "\n">>
TextBlank == <<" ">>

\* content lists of an output item (None and [] are both falsy: <<>>)
Contents ==
    {<<>>,
     <<Fragment(TextX)>>,
     <<Fragment(TextX), Fragment(TextY)>>,
     <<Fragment(EmptyStr)>>,
     <<Fragment(TextBlank)>>,
     <<NoTextFragment>>,
     <<NoTextFragment, Fragment(TextX)>>,
     <<Fragment(TextBlank), Fragment(TextPadded)>>,
     <<Fragment(EmptyStr), Fragment(TextY)>>}

\* (type, role) of an output item: an assistant message, a user message, a tool event
ItemKinds == {<<"message", "assistant">>, <<"message", "user">>, <<"tool_call", "-">>}

OutputItems == {OutputItem(k[1], k[2], c) : k \in ItemKinds, c \in Contents}

Outputs == SeqsUpTo(OutputItems, MaxItems)

\* values of output_parsed
StructuredTexts == {PyNone, StrVal(EmptyStr), StrVal(Ok), DictVal("foo7")}

\* the validated envelopes: (class, output_parsed)
Envelopes ==
    {<<"AzureOpenAIResponse", PyNone>>}
    \cup {<<"AzureOpenAIParsedResponse", v>> : v \in StructuredTexts}

InitExtract ==
    /\ registry = <<>>
    /\ history = <<>>
    /\ defaults = Defaults(DefaultModel, PyNone)
    /\ snapshot = NoSnapshot
    /\ inflight = NoCalls
    /\ peer = NoPeer
    /\ last = Ledger("init", <<>>)

\* resp_obj.extract_text() of a validated Azure envelope
ExtractOnce ==
    /\ last.op = "init"
    /\ \E e \in Envelopes, output \in Outputs :
        LET payload == AzurePayload(output, e[2], PyNone)
        IN last' = [Ledger("extract_text", history) EXCEPT
                       !.model = e[1], !.payload = payload,
                       !.text = [none |-> FALSE, text |-> ExtractText(e[1], payload)]]
    /\ UNCHANGED <<history, registry, defaults, snapshot, inflight, peer>>

NextExtract == ExtractOnce

SpecExtract == InitExtract /\ [][NextExtract]_vars

(***************************************************************************)
(* The gateway facade alone: MCPClient called directly.                    *)
(***************************************************************************)
\* the tools argument: None, an empty list, a list
ClientToolArgs == {NoTools, SomeTools(<<>>), SomeTools(<<SpecGit>>)}

ClientModelArgs == {PyNone, StrVal(EmptyStr), GivenModel}
ClientInstructionArgs == {PyNone, GivenInstructions}
ClientKwargs == {{}, {"temperature"}}

\* MCPClient.__init__
InitClient ==
    /\ registry \in SeqsUpTo({SpecS3, SpecBare}, MaxTools)
    /\ defaults \in {Defaults(m, i) : m \in {PyNone, DefaultModel},
                                       i \in {PyNone, DefaultInstructions}}
    /\ history = <<>>
    /\ snapshot = NoSnapshot
    /\ inflight = NoCalls
    /\ peer = NoPeer
    /\ last = Ledger("init", <<>>)

\* one call of the facade: op is the backend operation it forwards to
ClientCall(op) ==
    /\ last.op = "init"
    /\ \E tools \in ClientToolArgs, model \in ClientModelArgs,
          instructions \in ClientInstructionArgs, kwargs \in ClientKwargs :
        last' = [Ledger(op, history) EXCEPT
                    !.resolved = tools, !.kwargs = kwargs, !.kw_tools = KwTools(kwargs),
                    !.model_arg = model, !.instructions_arg = instructions,
                    !.called = 1,
                    !.request = ClientRequest(op, <<Turn("user", Hi)>>, model, instructions,
                                              tools, kwargs, registry, defaults)]
    /\ UNCHANGED <<history, registry, defaults, snapshot, inflight, peer>>

\* MCPClient.create_response
ClientCreate == ClientCall("create_response")

\* MCPClient.parse_response
ClientParse == ClientCall("parse_response")

NextClient == ClientCreate \/ ClientParse

SpecClient == InitClient /\ [][NextClient]_vars

(***************************************************************************)
(* The resolver alone, over catalogs and allow-lists.                      *)
(***************************************************************************)
AllowLists == {NoNames} \cup {SomeNames(l) : l \in SeqsUpTo(NameStrings, MaxNames)}

InitResolve ==
    /\ registry \in SeqsUpTo(SpecPool, MaxCatalog)
    /\ history = <<>>
    /\ defaults = Defaults(DefaultModel, PyNone)
    /\ snapshot = NoSnapshot
    /\ inflight = NoCalls
    /\ peer = NoPeer
    /\ last = Ledger("init", <<>>)

\* ChatService._resolve_tools
ResolveOnce ==
    /\ last.op = "init"
    /\ \E selection \in Selections, names \in AllowLists :
        last' = [Ledger("resolve", history) EXCEPT
                    !.selection = selection, !.names = names,
                    !.resolved = ResolveTools(selection, names, ClientToolsProperty(registry))]
    /\ UNCHANGED <<history, registry, defaults, snapshot, inflight, peer>>

NextResolve == ResolveOnce

SpecResolve == InitResolve /\ [][NextResolve]_vars

(***************************************************************************)
(* The command line: one run of `chat` or `parse`, from argument parsing   *)
(* to the exit status of the process.                                      *)
(*   a tools file is [state, t, items]: state "missing", "blank" (empty or *)
(*   whitespace), "notjson", or "json" holding a document of type t        *)
(*   ("object", "array" of items, "string"); an item is "object" or        *)
(*   "number".                                                             *)
(*   an outcome is [tag, status, message, calls]: how the process ended,   *)
(*   its exit status, what it wrote on stderr, and the number of send or   *)
(*   parse calls that reached the provider.                                *)
(***************************************************************************)
ToolsFile(state, t, items) == [state |-> state, t |-> t, items |-> items]

ToolsFiles ==
    {ToolsFile("missing", "-", <<>>), ToolsFile("blank", "-", <<>>),
     ToolsFile("notjson", "-", <<>>),
     ToolsFile("json", "object", <<>>), ToolsFile("json", "string", <<>>)}
    \cup {ToolsFile("json", "array", s) : s \in SeqsUpTo({"object", "number"}, MaxCatalog)}

\* raise SystemExit(message): the message on stderr, exit status 1
SystemExit(message) == [tag |-> "exit", status |-> 1, message |-> message, calls |-> 0]

\* an exception no handler catches: its traceback on stderr, exit status 1
Uncaught(cls, calls) == [tag |-> "raise", status |-> 1, message |-> cls, calls |-> calls]

\* parser.parse_args rejecting the command line: usage on stderr, exit status 2
UsageError == [tag |-> "exit", status |-> 2, message |-> "usage", calls |-> 0]

\* KeyboardInterrupt outside the loop of cmd_chat
Interrupted == [tag |-> "raise", status |-> 130, message |-> "KeyboardInterrupt", calls |-> 0]

\* return 0 of a subcommand, raised as SystemExit(0)
Completed(calls) == [tag |-> "return", status |-> 0, message |-> "-", calls |-> calls]

Loaded(tools) == [ok |-> TRUE, tools |-> tools, exit |-> Completed(0)]
Failed(exit) == [ok |-> FALSE, tools |-> <<>>, exit |-> exit]

LoadToolsFileLenient(f) ==
    Loaded([i \in 1..Len(SelectSeq(f.items, LAMBDA d : d = "object")) |-> SpecS3])

\* _load_tools_file
LoadToolsFile(f) ==
    IF f.state = "missing" THEN Failed(SystemExit("Tools file not found"))
    ELSE IF f.state = "blank" THEN Failed(SystemExit("Empty tools file"))
    ELSE IF f.state = "notjson" THEN Failed(SystemExit("Invalid JSON in tools file"))
    ELSE IF f.t = "object" THEN Loaded(<<SpecS3>>)
    ELSE IF f.t = "array"
         THEN Loaded([i \in 1..Len(SelectSeq(f.items, LAMBDA d : d = "object")) |-> SpecS3])
    ELSE Failed(SystemExit("Tools file must contain a JSON object or an array of objects"))

\* the --llm-params argument: absent, "", or a text
LlmParams == {"absent", "empty", "notjson", "array", "null", "object", "object_tools"}

\* _parse_llm_params: the keyword parameters, or the exit
ParseLlmParams(blob) ==
    IF blob \in {"absent", "empty"} THEN [ok |-> TRUE, kwargs |-> {}, exit |-> Completed(0)]
    ELSE IF blob = "notjson"
    THEN [ok |-> FALSE, kwargs |-> {}, exit |-> SystemExit("Invalid JSON in --llm-params")]
    ELSE IF blob \in {"array", "null"}
    THEN [ok |-> FALSE, kwargs |-> {},
          exit |-> SystemExit("--llm-params must be a JSON object")]
    ELSE [ok |-> TRUE, kwargs |-> IF blob = "object" THEN {"temperature"} ELSE {"tools"},
          exit |-> Completed(0)]

\* the --output-format argument: absent, or a dotted path
\*   "colon", "dotted"  pkg.module:Name and pkg.module.Name of a schema class
\*   "bare"             a name with neither ":" nor "."
\*   "nomodule"         the module cannot be imported
\*   "noattr"           the module has no such attribute
OutputFormats == {"absent", "colon", "dotted", "bare", "nomodule", "noattr"}

\* _import_by_dotted_path: the schema class, or the exception it raises
ImportByDottedPath(dotted) ==
    IF dotted = "bare" THEN [ok |-> FALSE, cls |-> "-", exit |-> Uncaught("ValueError", 0)]
    ELSE IF dotted = "nomodule"
    THEN [ok |-> FALSE, cls |-> "-", exit |-> Uncaught("ModuleNotFoundError", 0)]
    ELSE IF dotted = "noattr"
    THEN [ok |-> FALSE, cls |-> "-", exit |-> Uncaught("AttributeError", 0)]
    ELSE [ok |-> TRUE, cls |-> "StructOut", exit |-> Completed(0)]

\* the command line and the environment of one run; stdin is piped, or a
\* terminal where a line is typed ("tty") or Ctrl+C is pressed at the first
\* prompt ("interrupt")
CliArgs ==
    [cmd : {"chat", "parse"}, tool_config : ToolsFiles, llm_params : LlmParams,
     output_format : OutputFormats, system : {StrVal(Sys)},
     env : {"set", "unset"}, stdin : {"piped", "tty", "interrupt"},
     gateway : {"ok", "error"}]

\* what the provider answers to the calls of the run
CliReply(a) ==
    IF a.gateway = "error" THEN ReplyError("ConnectionError")
    ELSE ReplyRaw(Raw("dict", AzurePayload(<<AssistantMessage(<<TextX>>)>>,
                                           PyNone, DictVal("foo7"))))

\* _build_client: the provider binding reads its environment, then the
\* tools file is loaded
BuildClient(a) ==
    IF a.env = "unset" THEN Failed(Uncaught("OpenAIError", 0))
    ELSE LoadToolsFile(a.tool_config)

\* main: parse_args, then cmd_chat or cmd_parse.  The result is the history
\* and registry of the process and its outcome.
CliRun(a) ==
    LET built == BuildClient(a)
        chat == Construct(a.system, <<>>).turns
        schema == ImportByDottedPath(a.output_format)
        params == ParseLlmParams(a.llm_params)
        reply == CliReply(a)
        early(exit) == [history |-> <<>>, registry |-> <<>>, exit |-> exit]
        before(exit) == [history |-> chat, registry |-> built.tools, exit |-> exit]
    IN IF a.cmd = "parse" /\ a.output_format = "absent" THEN early(UsageError)
       ELSE IF ~built.ok THEN early(built.exit)
       ELSE IF a.cmd = "parse" /\ ~schema.ok THEN before(schema.exit)
       ELSE IF ~params.ok THEN before(params.exit)
       ELSE IF a.stdin = "interrupt"
       THEN before(IF a.cmd = "chat" THEN Completed(0) ELSE Interrupted)
       ELSE IF a.cmd = "chat"
       THEN LET clash == KeywordClash(params.kwargs, CreateKeywords)
                x == SendExtract("AzureOpenAIResponse", reply, clash)
            IN [history |-> SendCommit(chat, Hi, x), registry |-> built.tools,
                exit |-> IF x.out.tag = "raise"
                         THEN Uncaught(x.out.val.cls, GatewayCalls(clash, reply))
                         ELSE Completed(GatewayCalls(clash, reply))]
       ELSE LET clash == KeywordClash(params.kwargs, ParseKeywords)
                v == ParseValidate("AzureOpenAIParsedResponse", reply, clash)
                parsed == ParseSelect(v.payload.output_parsed, v.payload.parsed)
                result == IF v.out.tag = "raise" THEN v.out
                          ELSE ParseResult("AzureOpenAIParsedResponse", schema.cls, parsed)
            IN [history |-> ParseCommit(chat, Hi, v), registry |-> built.tools,
                exit |-> IF result.tag = "raise"
                         THEN Uncaught(result.val.cls, GatewayCalls(clash, reply))
                         ELSE Completed(GatewayCalls(clash, reply))]

InitCli ==
    /\ registry = <<>>
    /\ history = <<>>
    /\ defaults = Defaults(PyNone, PyNone)
    /\ snapshot = NoSnapshot
    /\ inflight = NoCalls
    /\ peer = NoPeer
    /\ last = Ledger("init", <<>>)

\* one run of the program
Main ==
    /\ last.op = "init"
    /\ \E a \in CliArgs :
        LET r == CliRun(a)
        IN /\ history' = r.history
           /\ registry' = r.registry
           /\ last' = [Ledger("main", history) EXCEPT
                          !.io = [kind |-> "cli", args |-> a, exit |-> r.exit]]
    /\ UNCHANGED <<defaults, snapshot, inflight, peer>>

NextCli == Main

SpecCli == InitCli /\ [][NextCli]_vars

(***************************************************************************)
(* The bucket-listing tool: S3UnitOfWork.list_buckets and                  *)
(* S3MCPTool._list_s3_buckets_impl.                                        *)
(*   a raw bucket is [Name, loc]: its name, and what get_bucket_location   *)
(*   answers for it ("none" for no LocationConstraint, "error" for a       *)
(*   BotoCoreError or ClientError, else the constraint).                   *)
(***************************************************************************)
RawBucket(name, loc) == [Name |-> name, loc |-> loc]

BucketPool ==
    {RawBucket(<<"p", "a">>, "EU"), RawBucket(<<"p", "b">>, "none"),
     RawBucket(<<"d", "a">>, "eu-west-1"), RawBucket(<<"p", "c">>, "error")}

\* the Buckets of the provider's listing, in its order
Listings == SeqsUpTo(BucketPool, MaxBuckets)

\* Optional[str] arguments
PrefixArgs == {PyNone, StrVal(EmptyStr), StrVal(<<"p">>)}
\* a region name is written as a one-element string
RegionArgs == {PyNone, StrVal(EmptyStr), StrVal(<<"eu-west-1">>), StrVal(<<"us-east-1">>)}
MaxBucketsArgs == 0..(MaxBuckets + 1)

\* str.startswith
StartsWith(s, prefix) ==
    Len(prefix) <= Len(s) /\ SubSeq(s, 1, Len(prefix)) = prefix

\* Bucket.normalize_region
NormalizeRegion(location_constraint) ==
    IF location_constraint \in {"none", "", "US"} THEN "us-east-1"
    ELSE IF location_constraint = "EU" THEN "eu-west-1"
    ELSE location_constraint

\* list_buckets, lines 71-75: the region a bucket resolves to
ResolvedRegion(b) == IF b.loc = "error" THEN "us-east-1" ELSE NormalizeRegion(b.loc)

\* a Bucket of the response
Bucket(b) == [Name |-> b.Name, BucketRegion |-> ResolvedRegion(b)]

\* list_buckets, lines 63-64: the prefix filter
PrefixFilter(raw_buckets, prefix) ==
    IF Truthy(prefix)
    THEN SelectSeq(raw_buckets, LAMBDA b : StartsWith(b.Name, prefix.s))
    ELSE raw_buckets

\* list_buckets, line 77: the region filter lets the bucket through
RegionPasses(b, region) == ~(Truthy(region) /\ <<ResolvedRegion(b)>> # region.s)

\* list_buckets, lines 66-90: the loop over the prefix-filtered listing
RECURSIVE Collect(_, _, _, _)
Collect(raw_buckets, region, max_buckets, buckets) ==
    IF raw_buckets = <<>> THEN buckets
    ELSE IF ~RegionPasses(Head(raw_buckets), region)
    THEN Collect(Tail(raw_buckets), region, max_buckets, buckets)
    ELSE LET appended == Append(buckets, Bucket(Head(raw_buckets)))
         IN IF Len(appended) >= max_buckets THEN appended
            ELSE Collect(Tail(raw_buckets), region, max_buckets, appended)

\* what client.list_buckets does: answers, or raises
ListingOutcomes == {"ok", "ClientError", "BotoCoreError", "KeyError"}

\* a ListS3BucketResponse
BucketResponse(buckets, prefix) ==
    [form |-> "model", Buckets |-> buckets, Prefix |-> prefix]

\* S3UnitOfWork.list_buckets
ListBuckets(outcome, listing, prefix, region, max_buckets) ==
    IF outcome \in {"ClientError", "BotoCoreError"} THEN Raises("RuntimeError")
    ELSE IF outcome # "ok" THEN Raises(outcome)
    ELSE Returns(BucketResponse(
             Collect(PrefixFilter(listing, prefix), region, max_buckets, <<>>), prefix))

\* what a unit of work given to the tool answers instead: a mapping, an
\* object with model_dump, a JSON text, a text that is not JSON, any other
\* object; or an exception it raises
StubReturns ==
    {Returns([form |-> f, Buckets |-> <<>>, Prefix |-> PyNone]) :
        f \in {"dict", "model_dump", "json", "text", "object"}}
StubRaises == {Raises(c) : c \in {"ClientError", "NoCredentialsError", "BotoCoreError",
                                   "RuntimeError"}}

\* the exception classes of the first handler
AwsErrors == {"BotoCoreError", "ClientError", "NoCredentialsError"}

\* BaseMCPTool.to_dict
ToolToDict(value) ==
    IF value.form \in {"model", "dict", "model_dump", "json"}
    THEN Returns([error |-> "-", Buckets |-> value.Buckets])
    ELSE IF value.form = "text" THEN Raises("JSONDecodeError")
    ELSE Raises("TypeError")

\* the {"error": ...} payload
ErrorPayload(message) == Returns([error |-> message, Buckets |-> <<>>])

ListBucketsImplAwsOnly(result) ==
    LET out == IF result.tag = "raise" THEN result ELSE ToolToDict(result.val)
    IN IF out.tag = "raise" /\ out.val.cls \in AwsErrors THEN ErrorPayload("S3 error")
       ELSE out

\* S3MCPTool._list_s3_buckets_impl, given what self.uow.list_buckets did
ListBucketsImpl(result) ==
    LET out == IF result.tag = "raise" THEN result ELSE ToolToDict(result.val)
    IN IF out.tag = "return" THEN out
       ELSE IF out.val.cls \in AwsErrors THEN ErrorPayload("S3 error")
       ELSE ErrorPayload("Unexpected error")

InitBuckets ==
    /\ registry = <<>>
    /\ history = <<>>
    /\ defaults = Defaults(PyNone, PyNone)
    /\ snapshot = NoSnapshot
    /\ inflight = NoCalls
    /\ peer = NoPeer
    /\ last = Ledger("init", <<>>)

\* uow.list_buckets(prefix, region, max_buckets)
ListBucketsOnce ==
    /\ last.op = "init"
    /\ \E outcome \in ListingOutcomes, listing \in Listings, prefix \in PrefixArgs,
          region \in RegionArgs, max_buckets \in MaxBucketsArgs :
        last' = [Ledger("list_buckets", history) EXCEPT
                    !.io = [kind |-> "s3", outcome |-> outcome, listing |-> listing,
                            prefix |-> prefix, region |-> region,
                            max_buckets |-> max_buckets, uow |-> Returns(PyNone)],
                    !.ret = ListBuckets(outcome, listing, prefix, region, max_buckets)]
    /\ UNCHANGED <<history, registry, defaults, snapshot, inflight, peer>>

\* tool._list_s3_buckets_impl(prefix, region, max_buckets), over an
\* S3UnitOfWork or over a unit of work given to the constructor
ListBucketsImplOnce ==
    /\ last.op = "init"
    /\ \E outcome \in ListingOutcomes, listing \in Listings, prefix \in PrefixArgs,
          region \in RegionArgs, max_buckets \in {1, MaxBuckets} :
        \E uow \in {ListBuckets(outcome, listing, prefix, region, max_buckets)}
                   \cup StubReturns \cup StubRaises :
            last' = [Ledger("list_s3_buckets", history) EXCEPT
                        !.io = [kind |-> "s3", outcome |-> outcome, listing |-> listing,
                                prefix |-> prefix, region |-> region,
                                max_buckets |-> max_buckets, uow |-> uow],
                        !.ret = ListBucketsImpl(uow)]
    /\ UNCHANGED <<history, registry, defaults, snapshot, inflight, peer>>

NextBuckets == ListBucketsOnce \/ ListBucketsImplOnce

SpecBuckets == InitBuckets /\ [][NextBuckets]_vars

(***************************************************************************)
(* send alone with the default envelope, over the output lists a provider  *)
(* result can hold.                                                        *)
(***************************************************************************)
\* provider results of a send: Azure payloads as a mapping, a model object
\* or a JSON text; a mapping the envelope rejects; a text that is not JSON;
\* a failure
DefaultEnvelopeReplies ==
    {ReplyRaw(Raw(f, AzurePayload(output, PyNone, PyNone))) :
        f \in {"dict", "model", "json"}, output \in Outputs}
    \cup {ReplyRaw(Raw("dict", CustomPayload(Ok))), ReplyRaw(Raw("text", RawPayload)),
          ReplyError("TimeoutError")}

InitSend ==
    /\ registry \in SeqsUpTo({SpecS3}, MaxTools)
    /\ history \in {<<>>, <<Turn("system", Sys)>>}
    /\ defaults = Defaults(DefaultModel, PyNone)
    /\ snapshot = NoSnapshot
    /\ inflight = NoCalls
    /\ peer = NoPeer
    /\ last = Ledger("init", <<>>)

\* chat.send(prompt) with response_model=None
SendOnce ==
    /\ last.op = "init"
    /\ SendCall({Call("all", NoNames, "AzureOpenAIResponse", r) :
                    r \in DefaultEnvelopeReplies})

NextSend == SendOnce

SpecSend == InitSend /\ [][NextSend]_vars

(***************************************************************************)
(* Properties of send and parse within a conversation (Spec).              *)
(***************************************************************************)
SendExtracted(t) == last.op = "send" /\ ~last.text.none /\ last.text.text = t

\* C1: after a send whose extraction yields a non-empty text T for prompt P,
\* the history is the history before the call followed by {user, P} and then
\* {assistant, T}.
C1_SendCommitsUserThenAssistant ==
    (last.op = "send" /\ ~last.text.none /\ last.text.text # EmptyStr) =>
        /\ Len(history) = Len(last.pre) + 2
        /\ SubSeq(history, 1, Len(last.pre)) = last.pre
        /\ history[Len(history) - 1] = [role |-> "user", content |-> last.prompt]
        /\ history[Len(history)] = [role |-> "assistant", content |-> last.text.text]

C1_Witness ==
    /\ SendExtracted(Ok)
    /\ last.pre # <<>>
    /\ Len(history) = Len(last.pre) + 2

C3_EmptyTextLeavesUserTurnLast ==
    SendExtracted(EmptyStr) =>
        /\ last.ret = [tag |-> "return", val |-> StrVal(EmptyStr)]
        /\ history # <<>>
        /\ history[Len(history)] = [role |-> "user", content |-> last.prompt]
        /\ Len(history) <= Len(last.pre) + 1

\* C4: when the gateway call of send or parse fails, the caller gets that same
\* failure and the history is the history before the call.
C4_GatewayFailureCommitsNothing ==
    (last.op \in {"send", "parse"} /\ last.gwerr # "-") =>
        /\ last.ret = [tag |-> "raise", val |-> ExcVal(last.gwerr)]
        /\ history = last.pre

C4_Witness ==
    /\ last.op = "send"
    /\ last.gwerr = "TimeoutError"
    /\ last.ret.tag = "raise"
    /\ last.pre # <<>>

\* C5: when the resolver returns absent for a send or parse call, the backend
\* is invoked with no tool list, whatever the registered catalog contains.
C5_AbsentDisablesTools ==
    (last.op \in {"send", "parse"} /\ last.called = 1 /\ last.resolved.none) =>
        last.request.tools.none

\* C6: a parse call whose gateway call, coercion and envelope validation
\* succeed appends exactly the user turn {user, prompt} to the history,
\* whatever the structured result is.
C6_ParseCommitsOnlyUserTurn ==
    (last.op = "parse" /\ last.failed \notin {"call", "gateway", "coerce", "envelope"}) =>
        history = last.pre \o <<[role |-> "user", content |-> last.prompt]>>

C6_Witness ==
    /\ last.op = "parse"
    /\ last.failed = "-"
    /\ last.ret.val.kind = "model"
    /\ last.pre # <<>>
    /\ Len(history) = Len(last.pre) + 1

(***************************************************************************)
(* Properties of the structured result of parse (SpecParse).               *)
(***************************************************************************)
ParseValidated ==
    last.op = "parse" /\ last.failed \notin {"gateway", "coerce", "envelope"}

\* what validating the mapping d against text_format gives the caller
ValidatedAgainst(text_format, d) ==
    IF TextFormatValidates(text_format, d)
    THEN [tag |-> "return", val |-> ModelVal(text_format, d.data)]
    ELSE [tag |-> "raise", val |-> ExcVal("ValidationError")]

\* C7 as stated: the result of parse follows the primary structured field
\* alone: an instance of text_format is returned as is, a plain mapping is
\* validated against text_format, and in every other case the validated
\* envelope itself is returned.
C7_ResultFollowsPrimaryField ==
    ParseValidated =>
        IF last.primary.kind = "model" /\ last.primary.cls = last.text_format
        THEN last.ret = [tag |-> "return", val |-> last.primary]
        ELSE IF last.primary.kind = "dict"
        THEN last.ret = ValidatedAgainst(last.text_format, last.primary)
        ELSE last.ret = [tag |-> "return", val |-> EnvelopeVal(last.model)]

\* C7 amended: the result of parse follows the primary structured field when
\* that field is truthy and the secondary field otherwise: a model instance
\* (of any class) is returned as is, a plain mapping is validated against
\* text_format, and in every other case the validated envelope itself is
\* returned.
C7_ResultFollowsFirstTruthyField ==
    ParseValidated =>
        LET chosen == IF last.primary.kind = "none"
                         \/ last.primary = DictVal("empty")
                         \/ last.primary = StrVal(EmptyStr)
                      THEN last.secondary ELSE last.primary
        IN IF chosen.kind = "model"
           THEN last.ret = [tag |-> "return", val |-> chosen]
           ELSE IF chosen.kind = "dict"
           THEN last.ret = ValidatedAgainst(last.text_format, chosen)
           ELSE last.ret = [tag |-> "return", val |-> EnvelopeVal(last.model)]

C7_Witness ==
    /\ ParseValidated
    /\ last.primary = PyNone
    /\ last.secondary = DictVal("foo1")
    /\ last.ret = [tag |-> "return", val |-> ModelVal("StructOut", "foo1")]

(***************************************************************************)
(* Properties of the resolver (SpecResolve).                               *)
(***************************************************************************)
IsBlank(s) == \A i \in 1..Len(s) : s[i] \in {" ", "\t", "\n"}

\* C8: for every catalog and every allow-list, the resolver with policy None
\* returns absent.
C8_NoneReturnsAbsent ==
    (last.op = "resolve" /\ last.selection = "none") => last.resolved = NoTools

C8_Witness ==
    /\ last.op = "resolve"
    /\ last.selection = "none"
    /\ Len(registry) = MaxCatalog
    /\ last.names = SomeNames(<< <<"s", "3">> >>)
    /\ last.resolved = NoTools

\* C9: the resolver with policy All, or with policy Some and an empty or
\* missing allow-list, returns the full catalog in catalog order when the
\* catalog is non-empty and absent when it is empty.
C9_AllReturnsCatalogOrAbsent ==
    (/\ last.op = "resolve"
     /\ \/ last.selection = "all"
        \/ last.selection = "some" /\ (last.names.none \/ Len(last.names.items) = 0)) =>
        /\ registry # <<>> => last.resolved = [none |-> FALSE, specs |-> registry]
        /\ registry = <<>> => last.resolved = [none |-> TRUE, specs |-> <<>>]

C9_Witness ==
    /\ last.op = "resolve"
    /\ last.selection = "some"
    /\ last.names = SomeNames(<<>>)
    /\ Len(registry) = MaxCatalog
    /\ registry[1] # registry[2]
    /\ last.resolved = [none |-> FALSE, specs |-> registry]

\* C10: the resolver with policy Some and a non-empty allow-list of only
\* empty or whitespace-only strings returns absent, whatever the catalog.
C10_BlankNamesReturnAbsent ==
    (/\ last.op = "resolve"
     /\ last.selection = "some"
     /\ ~last.names.none
     /\ last.names.items # <<>>
     /\ \A i \in 1..Len(last.names.items) : IsBlank(last.names.items[i])) =>
        last.resolved = [none |-> TRUE, specs |-> <<>>]

C10_Witness ==
    /\ last.op = "resolve"
    /\ last.selection = "some"
    /\ last.names = SomeNames(<< <<" ", "\t">>, EmptyStr >>)
    /\ registry # <<>>
    /\ last.resolved = NoTools

(***************************************************************************)
(* Properties of the resolver under policy Some (SpecResolve).             *)
(***************************************************************************)
\* the names of an allow-list, trimmed, the empty ones discarded
NormalizedNames(names) ==
    {Strip(names.items[i]) : i \in 1..Len(names.items)} \ {EmptyStr}

\* a spec matches N by its label, or by one of its capability names
MatchesByLabel(spec, N) == Strip(spec.server_label) \in N
MatchesByCapability(spec, N) ==
    \E i \in 1..Len(spec.allowed_tools) : Strip(spec.allowed_tools[i]) \in N

\* res lists, in increasing order of position, the entries of cat at the positions K
IsSubsequenceAt(res, cat, K) ==
    /\ Len(res) = Cardinality(K)
    /\ \E f \in [1..Len(res) -> K] :
        /\ \A i, j \in 1..Len(res) : i < j => f[i] < f[j]
        /\ \A i \in 1..Len(res) : res[i] = cat[f[i]]

ResolvedSome ==
    /\ last.op = "resolve" /\ last.selection = "some"
    /\ ~last.names.none /\ NormalizedNames(last.names) # {}

\* C11: under policy Some with a non-empty normalized name set N, the
\* resolver returns exactly the catalog's specs, in catalog order, whose label
\* is in N or one of whose capability names is in N (labels and capability
\* names compared trimmed, as the names are); it returns absent when no spec
\* matches.
C11_SomeReturnsMatchingSubsequence ==
    ResolvedSome =>
        LET N == NormalizedNames(last.names)
            K == {i \in 1..Len(registry) :
                    MatchesByLabel(registry[i], N) \/ MatchesByCapability(registry[i], N)}
        IN IF K = {} THEN last.resolved.none
           ELSE /\ ~last.resolved.none
                /\ IsSubsequenceAt(last.resolved.specs, registry, K)

\* a two-spec catalog of which the second spec alone matches, and only by a
\* capability name
C11_Witness ==
    /\ ResolvedSome
    /\ Len(registry) = 2
    /\ ~MatchesByLabel(registry[2], NormalizedNames(last.names))
    /\ MatchesByCapability(registry[2], NormalizedNames(last.names))
    /\ ~MatchesByLabel(registry[1], NormalizedNames(last.names))
    /\ ~MatchesByCapability(registry[1], NormalizedNames(last.names))
    /\ ~last.resolved.none /\ last.resolved.specs = <<registry[2]>>

(***************************************************************************)
(* Properties of the history read (SpecHistory).                           *)
(***************************************************************************)
CallerMutated == last.op \in {"caller_append", "caller_remove", "caller_set"}

\* C12 as stated: no mutation a caller applies to a returned history, to the
\* list or to one of its turns, changes the internal sequence.
C12_NoCallerMutationReachesHistory ==
    CallerMutated => history = last.pre

\* C12: the history read returns a new list holding the internal turns
\* themselves.  Appending to or removing from the returned list never changes
\* the internal sequence; changing the role or content of a returned turn
\* changes that turn in the internal sequence too, for as long as the
\* internal sequence still holds it, and nothing else; every read returns
\* the internal sequence as it then is.
C12_ReadIsShallowCopy ==
    /\ last.op \in {"caller_append", "caller_remove"} => history = last.pre
    /\ last.op = "caller_set" =>
          LET e == snapshot.turns[last.at]
          IN history = IF e.alias > 0 THEN [last.pre EXCEPT ![e.alias] = e.turn]
                       ELSE last.pre
    /\ last.op = "history" =>
          /\ history = last.pre
          /\ Len(last.read) = Len(history)
          /\ \A i \in 1..Len(history) : last.read[i].turn = history[i]

\* a caller appended to the returned list, which left the history as it was,
\* then changed a returned turn, and the internal turn changed with it
C12_Witness ==
    /\ last.op = "caller_set"
    /\ snapshot.turns[last.at].alias > 0
    /\ history # last.pre
    /\ Len(snapshot.turns) > Len(history)

(***************************************************************************)
(* How the history changes over a conversation (Spec).                     *)
(***************************************************************************)
\* h is g with at least one turn appended at its end
Extends(h, g) == Len(h) > Len(g) /\ SubSeq(h, 1, Len(g)) = g

SendCommitted == last.op = "send" /\ last.ret.tag = "return" /\ StrTruthy(last.text.text)

Extracted(model) == last.op = "extract_text" /\ last.model = model

\* positions (item, fragment) of an output list, and their encounter order
Positions(output) ==
    UNION {{<<i, j>> : j \in 1..Len(output[i].content)} : i \in 1..Len(output)}

Before(q, r) == q[1] < r[1] \/ (q[1] = r[1] /\ q[2] < r[2])

FragmentAt(output, q) == output[q[1]].content[q[2]]

\* the fragments whose text is a string that is non-empty after trimming, in
\* items of type "message" and role "assistant"
Qualifying(output) ==
    {q \in Positions(output) :
        /\ output[q[1]].type = "message" /\ output[q[1]].role = "assistant"
        /\ FragmentAt(output, q).isstr
        /\ Strip(FragmentAt(output, q).text) # EmptyStr}

\* the texts at the positions Q, in encounter order
TextsAt(output, Q) ==
    [k \in 1..Cardinality(Q) |->
        FragmentAt(output,
            CHOOSE q \in Q : Cardinality({r \in Q : Before(r, q)}) = k - 1).text]

\* C14: when an assistant message item of the output holds at least one
\* fragment whose text is non-empty after trimming, extract_text of the plain
\* envelope returns the texts of all such fragments, untrimmed, in encounter
\* order, joined by a blank line, and nothing of any other item or fragment.
C14_PrimaryPassJoinsAssistantTexts ==
    (Extracted("AzureOpenAIResponse") /\ Qualifying(last.payload.output) # {}) =>
        last.text.text =
            JoinTexts(TextsAt(last.payload.output, Qualifying(last.payload.output)))

\* a tool event with a text, then an assistant message with two texts
C14_Witness ==
    /\ Extracted("AzureOpenAIResponse")
    /\ Len(last.payload.output) = 2
    /\ last.payload.output[1] = OutputItem("tool_call", "-", <<Fragment(TextX)>>)
    /\ last.payload.output[2] =
           OutputItem("message", "assistant", <<Fragment(TextX), Fragment(TextY)>>)
    /\ last.text.text = TextX \o BlankLine \o TextY

\* the items the fallback pass can take a text from, in order: those with a
\* content whose first fragment has a string for text
FirstFragmentItems(output) ==
    {i \in 1..Len(output) : output[i].content # <<>> /\ output[i].content[1].isstr}

FirstOf(S) == CHOOSE i \in S : \A j \in S : i <= j

\* C15 as stated: when the primary pass finds nothing, extract_text returns the
\* first non-empty text found in the first item that has any content.
C15_FallbackFirstNonEmptyText ==
    (/\ Extracted("AzureOpenAIResponse")
     /\ Qualifying(last.payload.output) = {}
     /\ \E i \in 1..Len(last.payload.output) : last.payload.output[i].content # <<>>) =>
        LET output == last.payload.output
            i == FirstOf({k \in 1..Len(output) : output[k].content # <<>>})
            J == {j \in 1..Len(output[i].content) :
                    output[i].content[j].isstr /\ output[i].content[j].text # EmptyStr}
        IN J # {} => last.text.text = output[i].content[FirstOf(J)].text

\* C15: when the primary pass finds nothing, extract_text skips the items
\* that have no content or whose first fragment has no text string, and takes
\* the text of the first fragment of the first remaining item, whatever that
\* item's type and role; it returns that text when it is non-empty, and the
\* string form of the whole object when it is empty or no item remains.
C15_FallbackFirstFragmentText ==
    (Extracted("AzureOpenAIResponse") /\ Qualifying(last.payload.output) = {}) =>
        LET output == last.payload.output
            S == FirstFragmentItems(output)
        IN last.text.text =
              IF S # {} /\ output[FirstOf(S)].content[1].text # EmptyStr
              THEN output[FirstOf(S)].content[1].text
              ELSE ReprText

\* the only item with a text is a tool event behind an item without text
C15_Witness ==
    /\ Extracted("AzureOpenAIResponse")
    /\ Len(last.payload.output) = 2
    /\ last.payload.output[1].content = <<NoTextFragment>>
    /\ last.payload.output[2] = OutputItem("tool_call", "-", <<Fragment(TextX)>>)
    /\ last.text.text = TextX

\* no fragment of the output holds a non-empty string
NoTextAnywhere(output) ==
    \A q \in Positions(output) :
        ~FragmentAt(output, q).isstr \/ FragmentAt(output, q).text = EmptyStr

HoldsText(v) == v.kind = "str" /\ v.s # EmptyStr

C17_StructuredFieldThenPlainExtraction ==
    Extracted("AzureOpenAIParsedResponse") =>
        last.text.text =
            IF HoldsText(last.payload.output_parsed)
            THEN last.payload.output_parsed.s
            ELSE ExtractText("AzureOpenAIResponse", last.payload)

\* the structured field wins over an assistant text of the output
C17_Witness ==
    /\ Extracted("AzureOpenAIParsedResponse")
    /\ last.payload.output_parsed = StrVal(Ok)
    /\ last.payload.output = <<OutputItem("message", "assistant", <<Fragment(TextX)>>)>>
    /\ last.text.text = Ok

(***************************************************************************)
(* Properties of the gateway facade (SpecClient).                          *)
(***************************************************************************)
ClientCalled == last.op \in {"create_response", "parse_response"}

\* the value forwarded for an optional argument with a client default
GivenOrDefault(arg, dflt, sent) ==
    /\ arg.kind = "none" => sent = dflt
    /\ (arg.kind = "str" /\ arg.s # EmptyStr) => sent = arg

\* C18: create_response and parse_response forward to the backend the explicit
\* tools argument when it is not None, else a tools value found in the extra
\* keyword arguments, else the registry when it is non-empty, else None; the
\* model and the instructions they forward are the client defaults when the
\* call gives none, and the given ones otherwise.
C18_FacadeToolPrecedenceAndDefaults ==
    ClientCalled =>
        /\ last.request.tools =
              IF ~last.resolved.none THEN last.resolved
              ELSE IF ~last.kw_tools.none THEN last.kw_tools
              ELSE IF registry # <<>> THEN [none |-> FALSE, specs |-> registry]
              ELSE [none |-> TRUE, specs |-> <<>>]
        /\ GivenOrDefault(last.model_arg, defaults.model, last.request.model)
        /\ GivenOrDefault(last.instructions_arg, defaults.instructions,
                          last.request.instructions)

\* an explicit list wins over a non-empty registry, and the model not given
\* is the client's default
C18_Witness ==
    /\ last.op = "parse_response"
    /\ registry = <<SpecS3>>
    /\ last.resolved = SomeTools(<<SpecGit>>)
    /\ last.request.tools = SomeTools(<<SpecGit>>)
    /\ last.model_arg = PyNone /\ defaults.model = DefaultModel
    /\ last.request.model = DefaultModel

(***************************************************************************)
(* Gateway invocations and coercion within a conversation (Spec).          *)
(***************************************************************************)
Called == last.op \in {"send", "parse"}

GatewayOperation == IF last.op = "send" THEN "create_response" ELSE "parse_response"

\* C19 as stated: every send and every parse invokes the gateway exactly once,
\* whatever its outcome.
C19_EveryCallInvokesGatewayOnce ==
    Called => last.called = 1

\* the call's extra keyword arguments repeat a keyword the orchestrator passes
RepeatsKeyword ==
    \/ "tools" \in last.kwargs \/ "input" \in last.kwargs
    \/ (last.op = "parse" /\ "messages" \in last.kwargs)

\* C19: a send invokes the gateway's freeform completion exactly once and a
\* parse the structured completion exactly once, whether the call commits,
\* extracts an empty text or fails, unless its extra keyword arguments repeat a
\* keyword the orchestrator passes itself (input, tools, for parse also
\* messages): that call raises TypeError without invoking the gateway and
\* leaves the history as it was.
C19_NoRetry ==
    Called =>
        IF RepeatsKeyword
        THEN /\ last.called = 0
             /\ last.ret = [tag |-> "raise", val |-> ExcVal("TypeError")]
             /\ history = last.pre
        ELSE /\ last.called = 1
             /\ last.request.op = GatewayOperation

\* a parse whose gateway call failed, invoked once
C19_Witness ==
    /\ last.op = "parse"
    /\ last.gwerr = "AuthError" /\ last.ret.tag = "raise"
    /\ last.called = 1
    /\ last.request.op = "parse_response"

\* C20: coercing the raw gateway result never fails: a mapping, an object
\* with a dump-to-mapping capability and a JSON string give their mapping, and
\* any value that cannot be parsed gives a mapping with the single key raw.
C20_CoercionNeverFails ==
    (Called /\ last.form # "-") => last.failed # "coerce"

(***************************************************************************)
(* Concurrent send calls on one orchestrator (SpecRace).                   *)
(***************************************************************************)
\* the history a call built its message list from
BaseOf(t) == SubSeq(inflight[t].input, 1, Len(inflight[t].input) - 1)

Committed(t) == inflight[t].pc = "done" /\ StrTruthy(inflight[t].text.text)

UserTurnOf(t) == [role |-> "user", content |-> inflight[t].prompt]
AssistantTurnOf(t) == [role |-> "assistant", content |-> inflight[t].text.text]

Holds(h, turn) == \E i \in 1..Len(h) : h[i] = turn

\* two calls that both committed built their requests from the same history
Raced(s, t) ==
    /\ s # t /\ Committed(s) /\ Committed(t)
    /\ BaseOf(s) = BaseOf(t)

\* C21: when two concurrent send calls have built their requests from the same
\* history and both have committed, the history is that common history
\* followed by the user and assistant turns of both calls, and the request of
\* neither call held a turn of the other.
C21_RacingSendsBothCommit ==
    \A s, t \in Threads :
        Raced(s, t) =>
            /\ Len(history) >= Len(BaseOf(s)) + 4
            /\ SubSeq(history, 1, Len(BaseOf(s))) = BaseOf(s)
            /\ Holds(history, UserTurnOf(s)) /\ Holds(history, AssistantTurnOf(s))
            /\ Holds(history, UserTurnOf(t)) /\ Holds(history, AssistantTurnOf(t))
            /\ ~Holds(inflight[t].input, UserTurnOf(s))
            /\ ~Holds(inflight[t].input, AssistantTurnOf(s))

\* both calls started on the same history; the history ends with the pair of
\* call 1 and then the pair of call 2, whose request held neither turn of call 1
C21_Witness ==
    /\ Raced(1, 2)
    /\ BaseOf(1) # <<>>
    /\ history = BaseOf(1) \o <<UserTurnOf(1), AssistantTurnOf(1),
                                  UserTurnOf(2), AssistantTurnOf(2)>>
    /\ inflight[2].input = BaseOf(1) \o <<UserTurnOf(2)>>

(***************************************************************************)
(* Two orchestrator instances (SpecInstances).                             *)
(***************************************************************************)
\* C22: whatever is done on one orchestrator (seed_system, add_turn, reset,
\* send, parse) and whatever the caller later does to the turn list it was
\* constructed from, the history of another orchestrator, constructed from
\* the same list, stays what it was after its construction.
C22_InstancesShareNoHistory ==
    peer.history = peer.built

\* the first orchestrator committed a send and the caller then appended to
\* the list both were constructed from; the second one still has its history
C22_Witness ==
    /\ last.op = "seed_append"
    /\ peer.built # <<>>
    /\ Len(history) >= Len(peer.built) + 2
    /\ Len(peer.seed) = Len(peer.built) + 1
    /\ peer.history = peer.built

(***************************************************************************)
(* Exit behaviour of the command line (SpecCli).                           *)
(***************************************************************************)
Ran == last.op = "main"

\* the tools file is missing, empty, not JSON, or JSON that is neither an
\* object nor an array
MalformedCatalog(a) ==
    a.tool_config.state \in {"missing", "blank", "notjson"}
    \/ (a.tool_config.state = "json" /\ a.tool_config.t \notin {"object", "array"})

\* --llm-params is given and is not a JSON object
MalformedParams(a) == a.llm_params \in {"notjson", "array", "null"}

\* the schema path of parse is absent or cannot be resolved
BadSchemaPath(a) ==
    a.cmd = "parse" /\ a.output_format \in {"absent", "bare", "nomodule", "noattr"}

ImplRan == last.op = "list_s3_buckets"

\* the unit of work raised, or its result cannot be converted to a mapping
ImplFailure ==
    last.io.uow.tag = "raise" \/ last.io.uow.val.form \in {"text", "object"}

\* C24: _list_s3_buckets_impl always returns: when the unit of work raises an
\* exception (an AWS client error, missing credentials, or any other class
\* derived from Exception) or the conversion of its result raises, the
\* returned mapping has an error entry; otherwise it is the converted result,
\* without an error entry.
C24_ListImplNeverRaises ==
    ImplRan =>
        /\ last.ret.tag = "return"
        /\ ImplFailure => (last.ret.val.error # "-" /\ last.ret.val.Buckets = <<>>)
        /\ ~ImplFailure =>
               last.ret.val = [error |-> "-", Buckets |-> last.io.uow.val.Buckets]

C24_Witness ==
    /\ ImplRan
    /\ last.io.outcome = "ClientError"
    /\ last.io.uow = Raises("RuntimeError")
    /\ last.ret = ErrorPayload("Unexpected error")

\* the buckets of the listing that pass both filters, in listing order
Passing ==
    SelectSeq(last.io.listing,
              LAMBDA b : /\ (Truthy(last.io.prefix) => StartsWith(b.Name, last.io.prefix.s))
                         /\ (Truthy(last.io.region)
                                => <<ResolvedRegion(b)>> = last.io.region.s))

Leading(s, n) == SubSeq(s, 1, IF n < Len(s) THEN n ELSE Len(s))

\* C25: list_buckets returns at most max_buckets buckets, the first
\* max_buckets of those passing the prefix and region filters, in listing
\* order, for every max_buckets.
C25_AtMostMaxBuckets ==
    (last.op = "list_buckets" /\ last.ret.tag = "return") =>
        /\ Len(last.ret.val.Buckets) <= last.io.max_buckets
        /\ [i \in 1..Len(last.ret.val.Buckets) |-> last.ret.val.Buckets[i].Name]
               = [i \in 1..Len(Leading(Passing, last.io.max_buckets)) |->
                      Leading(Passing, last.io.max_buckets)[i].Name]

(***************************************************************************)
(* The request of a call and the history around it (Spec, SpecParse).      *)
(***************************************************************************)
\* C26: on every send and parse call that reaches the gateway, the message
\* list handed to it is the history at call time, in order and unchanged,
\* followed by one user turn holding the prompt; building it leaves the stored
\* history as it was: the history after the call still begins with the
\* history at call time, and equals it when the call fails.
C26_RequestIsHistoryThenPrompt ==
    (Called /\ last.called = 1) =>
        /\ last.request.input = last.pre \o <<[role |-> "user", content |-> last.prompt]>>
        /\ Len(history) >= Len(last.pre)
        /\ SubSeq(history, 1, Len(last.pre)) = last.pre
        /\ last.failed \in {"gateway", "coerce", "envelope"} => history = last.pre

C26_Witness ==
    /\ last.op = "parse"
    /\ last.called = 1
    /\ Len(last.pre) = 2
    /\ last.failed = "gateway"
    /\ Len(last.request.input) = 3
    /\ last.request.input[3] = Turn("user", last.prompt)
    /\ history = last.pre

\* C27: when output_parsed is None and parsed holds a mapping, a parse whose
\* envelope validates gives the caller what validating that mapping against
\* text_format gives: the text_format instance built from it, or the
\* validation failure.
C27_SecondaryMappingIsValidated ==
    (ParseValidated /\ last.primary = PyNone /\ last.secondary.kind = "dict") =>
        IF TextFormatValidates(last.text_format, last.secondary)
        THEN last.ret = Returns(ModelVal(last.text_format, last.secondary.data))
        ELSE last.ret = Raises("ValidationError")

C27_Witness ==
    /\ ParseValidated
    /\ last.model = "AzureOpenAIParsedResponse"
    /\ last.primary = PyNone
    /\ last.secondary = DictVal("foo1")
    /\ last.ret.val = ModelVal(last.text_format, "foo1")
    /\ history = Append(last.pre, Turn("user", last.prompt))

ParseRaised == last.op = "parse" /\ last.ret.tag = "raise"

\* C28 as stated: whenever a parse call ends by raising, for any reason, the
\* history after the call equals the history before it.
C28_RaisingParseCommitsNothing == ParseRaised => history = last.pre

\* C28 amended: a parse call that ends by raising at the call, in the
\* gateway, in the coercion or in the envelope validation leaves the history
\* as it was before the call; one that ends by raising when the structured
\* mapping is validated against text_format leaves the history before the
\* call followed by the user turn of the call.
C28_RaisingParseCommitsAtMostUserTurn ==
    ParseRaised =>
        IF last.failed = "text_format"
        THEN history = last.pre \o <<[role |-> "user", content |-> last.prompt]>>
        ELSE last.failed \in {"call", "gateway", "coerce", "envelope"}
             /\ history = last.pre

C28_Witness ==
    /\ ParseRaised
    /\ last.failed = "text_format"
    /\ last.ret = Raises("ValidationError")
    /\ last.called = 1
    /\ Len(last.pre) = 1
    /\ Len(history) = 2
    /\ history[2] = Turn("user", last.prompt)

(***************************************************************************)
(* send with the default envelope (SpecSend).                              *)
(***************************************************************************)
DefaultSendSucceeded ==
    last.op = "send" /\ last.model = "AzureOpenAIResponse" /\ last.failed = "-"

\* C29: a send with the default envelope whose gateway call, coercion and
\* validation succeed extracts a non-empty text, returns it, and appends
\* exactly the user turn and the assistant turn holding that text: with this
\* envelope no validated payload takes the empty-text path.
C29_DefaultEnvelopeAlwaysCommits ==
    DefaultSendSucceeded =>
        /\ ~last.text.none
        /\ last.text.text # EmptyStr
        /\ last.ret = Returns(StrVal(last.text.text))
        /\ history = last.pre \o <<[role |-> "user", content |-> last.prompt],
                                   [role |-> "assistant", content |-> last.text.text]>>

\* a payload whose output holds no usable text: the string form is committed
C29_Witness ==
    /\ DefaultSendSucceeded
    /\ last.pre = <<Turn("system", Sys)>>
    /\ last.text.text = ReprText
    /\ Len(history) = 3
    /\ history[3] = Turn("assistant", ReprText)

====
